---- MODULE Spec2Model ----
(***************************************************************************)
(* HistoriCam vision service: the POST /identify request handler, the      *)
(* in-memory similarity ranker and the two-threshold majority-vote         *)
(* classifier (services/vision/src/main.py, vision_service.py), with the   *)
(* other places of the repository that decide or share state.              *)
(*                                                                         *)
(* Numbers.  A similarity is a float in [-1, 1]; the model keeps it as an  *)
(* integer count of 0.0001 steps (10000 is 1.0), so that round(x, 3) is a  *)
(* real rounding to the nearest multiple of Milli and a mean of several    *)
(* similarities is the exact quotient sum / n.                             *)
(*                                                                         *)
(* Strings.  An image id is a sequence of one-character strings, so that   *)
(* image_id.split('_', 1) is computed and not assumed.                     *)
(*                                                                         *)
(* Specifications.  Spec starts with a loaded index and keeps a query as   *)
(* its cosine with every indexed vector, which gives the classifier every  *)
(* pattern of similarities.  LoadSpec starts before the constructor runs:  *)
(* it checks the settings, parses the embeddings source, keeps the stored  *)
(* vectors and the query as integer vectors and computes their cosines.    *)
(* ConcSpec runs several requests of one event loop against a loaded       *)
(* index.  ApiSpec is the vector-search variant of the service             *)
(* (services/api).  ClientSpec is the lazily created LLM client of         *)
(* ml/llm-rag/rag_core.py, StoreSpec the version history kept by           *)
(* lib/gcs_utils/manager.py.                                               *)
(***************************************************************************)
EXTENDS Integers, Sequences, FiniteSets, TLC

VARIABLES
    index,                  \* self.index: image ids in dict (load) order
    top_k,                  \* self.top_k
    confidence_threshold,   \* self.confidence_threshold
    backup_threshold,       \* self.backup_threshold
    query,                  \* the request's cosines: index position -> similarity
    results,                \* the ranked list _compute_similarities returned
    response,               \* the HTTP response of the request in flight
    service,                \* the process: "starting", "up" or "failed"
    source,                 \* the lines of the embeddings JSONL blob
    vectors,                \* self.index values, in the order of index
    embedding,              \* the request's query vector
    upload,                 \* the content type of the part of the request in flight
    env,                    \* os.environ: the required settings of the process
    calls,                  \* what the constructor or the request in flight has invoked
    requests,               \* the /identify requests of an event loop, with their locals
    llm_client,             \* rag_core._llm_client
    llm_lock,               \* rag_core._llm_lock: its holder, or NoThread
    threads,                \* the callers of get_llm_client: position and return value
    versions_json,          \* the blob metadata/versions.json
    uploaders,              \* the processes in upload_images_with_versioning
    completed               \* the versions whose upload has returned, oldest first

vars == <<index, top_k, confidence_threshold, backup_threshold,
          query, results, response, service, source, vectors, embedding,
          upload, env, calls, requests, llm_client, llm_lock, threads,
          versions_json, uploaders, completed>>

\* The variables of the RAG client and of the data manager, which no step of
\* the vision service touches.
clientVars == <<llm_client, llm_lock, threads>>
storeVars == <<versions_json, uploaders, completed>>

\* _llm_client = None (clients are numbered from 1), and _llm_lock held by
\* nobody: the module as imported, with no caller.
NoClient == 0
NoThread == 0
ClientAtRest ==
    /\ llm_client = NoClient
    /\ llm_lock = NoThread
    /\ threads = <<>>

\* A bucket without metadata/versions.json and no upload under way.
NoBlob == [exists |-> FALSE, versions |-> <<>>]
StoreAtRest ==
    /\ versions_json = NoBlob
    /\ uploaders = <<>>
    /\ completed = <<>>

(***************************************************************************)
(* Bounds and value sets                                                   *)
(***************************************************************************)
\* The largest number of records in the embeddings source.
MaxIndex == 5

\* 0.001 in model units: the third decimal place round(x, 3) keeps.
Milli == 10
One == 1000 * Milli

\* The cosines a query can have with an indexed vector.
SimValues == {-2000, 0, 4000, 7004, 10000}

\* CONFIDENCE_THRESHOLD, BACKUP_THRESHOLD and TOP_K are read from the
\* environment; the first value of each set is the code's default.
ConfidenceThresholds == {7000, 4000, 7004}
BackupThresholds == {4000, -5000, 7000}
TopKValues == {5, 2, 0, -1}

\* The settings a run starts with: top_k 5 or 2 with every pair of the
\* thresholds 0.7 / 0.4 and 0.4 / -0.5 / 0.7, and every other value of one
\* setting beside the defaults of the others.
Configs ==
    {c \in [top_k : TopKValues,
            confidence_threshold : ConfidenceThresholds,
            backup_threshold : BackupThresholds] :
        \/ c.top_k \in {5, 2} /\ c.confidence_threshold \in {7000, 4000}
        \/ c.top_k = 5 /\ c.backup_threshold = 4000
        \/ c.confidence_threshold = 7000 /\ c.backup_threshold = 4000}

\* The thresholds an operator could configure (for comparing two settings).
ThresholdValues == ConfidenceThresholds \cup BackupThresholds \cup {10000}

\* building_id = None.  No image id contains this token: ids are made of
\* single characters.
None == <<"<None>">>

\* The i-th record id of the embeddings source: "<building>_<hash>",
\* buildings "1" and "2" alternating; the fourth id is a bare "2", which has
\* no underscore.
HashChars == <<"a", "b", "c", "d">>
SourceId(i) ==
    IF i = 4 THEN <<"2">>
    ELSE <<(IF i % 2 = 1 THEN "1" ELSE "2"), "_", HashChars[(((i - 1) \div 2) % 4) + 1]>>

(***************************************************************************)
(* Pure helpers                                                            *)
(***************************************************************************)
\* sum(xs)
RECURSIVE Sum(_)
Sum(xs) == IF xs = <<>> THEN 0 ELSE Head(xs) + Sum(Tail(xs))

\* round(num / den, 3) for den > 0: the nearest multiple of Milli, an exact
\* half going to the even one (Python's round).
RoundDiv(num, den) ==
    LET d == den * Milli
        q == num \div d
        r == num - q * d
    IN  IF 2 * r < d THEN q * Milli
        ELSE IF 2 * r > d THEN (q + 1) * Milli
        ELSE IF q % 2 = 0 THEN q * Milli
        ELSE (q + 1) * Milli

\* round(x, 3)
Round3(x) == RoundDiv(x, 1)

\* image_id.split('_', 1)[0]: the characters before the first underscore,
\* the whole id when it has none.
RECURSIVE BuildingOf(_)
BuildingOf(image_id) ==
    IF image_id = <<>> THEN <<>>
    ELSE IF Head(image_id) = "_" THEN <<>>
    ELSE <<Head(image_id)>> \o BuildingOf(Tail(image_id))

(***************************************************************************)
(* SimilarityRanker: VisionService._compute_similarities                   *)
(***************************************************************************)
\* Variants of the sort: ascending (reverse forgotten), and one that puts an
\* item before the earlier items of the same similarity.
RECURSIVE InsertDesc_ascending(_, _)
InsertDesc_ascending(x, sorted) ==
    IF sorted = <<>> THEN <<x>>
    ELSE IF Head(sorted).similarity <= x.similarity
         THEN <<Head(sorted)>> \o InsertDesc_ascending(x, Tail(sorted))
    ELSE <<x>> \o sorted

RECURSIVE InsertDesc_unstable(_, _)
InsertDesc_unstable(x, sorted) ==
    IF sorted = <<>> THEN <<x>>
    ELSE IF Head(sorted).similarity > x.similarity
         THEN <<Head(sorted)>> \o InsertDesc_unstable(x, Tail(sorted))
    ELSE <<x>> \o sorted

\* sorted(items, key=lambda x: x[1], reverse=True): a stable sort, so items
\* of equal similarity keep the order they had in xs.
RECURSIVE InsertDesc(_, _)
InsertDesc(x, sorted) ==
    IF sorted = <<>> THEN <<x>>
    ELSE IF Head(sorted).similarity >= x.similarity
         THEN <<Head(sorted)>> \o InsertDesc(x, Tail(sorted))
    ELSE <<x>> \o sorted

RECURSIVE SortedDesc(_)
SortedDesc(xs) ==
    IF xs = <<>> THEN <<>>
    ELSE InsertDesc(xs[Len(xs)], SortedDesc(SubSeq(xs, 1, Len(xs) - 1)))

\* Variant: the sorted list is returned without the cut.
SliceTo_all(xs, k) == xs

\* xs[:k], Python's slice: a negative k counts from the end.
SliceTo(xs, k) ==
    LET stop == IF k >= 0 THEN k ELSE Len(xs) + k
        n == IF stop < 0 THEN 0 ELSE IF stop > Len(xs) THEN Len(xs) ELSE stop
    IN  SubSeq(xs, 1, n)

\* The dict image_id -> similarity, in the index's iteration order.  cos[i]
\* is float(np.dot(query_norm, stored_norm)) for the i-th indexed vector.
similarities(idx, cos) ==
    [i \in 1..Len(idx) |-> [id |-> idx[i], similarity |-> cos[i]]]

compute_similarities(idx, cos, k) ==
    LET sorted_results == SortedDesc(similarities(idx, cos))
        cut == SliceTo(sorted_results, k)
    IN  [i \in 1..Len(cut) |->
            [id |-> cut[i].id,
             building_id |-> BuildingOf(cut[i].id),
             similarity |-> cut[i].similarity]]

(***************************************************************************)
(* Classifier: VisionService._classify_results                             *)
(***************************************************************************)
\* Variants of the confidence filter: a strict comparison, and a comparison
\* the wrong way round.
confident_results_strict(rs, ct) == SelectSeq(rs, LAMBDA r : r.similarity > ct)
confident_results_below(rs, ct) == SelectSeq(rs, LAMBDA r : r.similarity <= ct)

\* Variant: once one match clears the threshold the whole list is kept.
confident_results_any(rs, ct) ==
    IF \E i \in 1..Len(rs) : rs[i].similarity >= ct THEN rs ELSE <<>>

\* [r for r in results if r['similarity'] >= self.confidence_threshold]
confident_results(rs, ct) == SelectSeq(rs, LAMBDA r : r.similarity >= ct)

\* [r for r in results if r['similarity'] >= self.backup_threshold]
backup_results(rs, bt) == SelectSeq(rs, LAMBDA r : r.similarity >= bt)

\* [r['building_id'] for r in qs]
building_ids(qs) == [i \in 1..Len(qs) |-> qs[i].building_id]

\* The keys of Counter(xs): the distinct elements, in first-seen order.
RECURSIVE CounterKeys(_)
CounterKeys(xs) ==
    IF xs = <<>> THEN <<>>
    ELSE LET init == SubSeq(xs, 1, Len(xs) - 1)
             last == xs[Len(xs)]
             keys == CounterKeys(init)
         IN  IF \E i \in 1..Len(keys) : keys[i] = last THEN keys
             ELSE Append(keys, last)

\* Counter(xs)[x]
Count(xs, x) == Cardinality({i \in 1..Len(xs) : xs[i] = x})

\* Variants of the vote: the top-ranked building without any vote, and the
\* last key of the largest count instead of the first.
most_common_top1(xs) == xs[1]
most_common_last(xs) ==
    LET keys == CounterKeys(xs)
        last == CHOOSE i \in 1..Len(keys) :
                    /\ \A j \in 1..Len(keys) : Count(xs, keys[j]) <= Count(xs, keys[i])
                    /\ \A j \in (i + 1)..Len(keys) : Count(xs, keys[j]) < Count(xs, keys[i])
    IN  keys[last]

\* Counter(xs).most_common(1)[0][0]: max(items, key=count), which returns
\* the first key of the largest count in the Counter's order.
most_common(xs) ==
    LET keys == CounterKeys(xs)
        first == CHOOSE i \in 1..Len(keys) :
                    /\ \A j \in 1..Len(keys) : Count(xs, keys[j]) <= Count(xs, keys[i])
                    /\ \A j \in 1..(i - 1) : Count(xs, keys[j]) < Count(xs, keys[i])
    IN  keys[first]

\* Variant: the similarities of every qualifying match, whatever its building.
building_similarities_all(qs, b) == [i \in 1..Len(qs) |-> qs[i].similarity]

\* [r['similarity'] for r in qs if r['building_id'] == most_common_building]
building_similarities(qs, b) ==
    LET own == SelectSeq(qs, LAMBDA r : r.building_id = b)
    IN  [i \in 1..Len(own) |-> own[i].similarity]

\* Variant: the sum is not divided by the number of similarities.
avg_similarity_sum(sims) == Round3(Sum(sims))

\* round(sum(sims) / len(sims), 3)
avg_similarity(sims) == RoundDiv(Sum(sims), Len(sims))

\* Variant: only the entries of the top-ranked building are listed.
matches_of_top_building(qs) ==
    LET own == SelectSeq(qs, LAMBDA r : r.building_id = qs[1].building_id)
    IN  [i \in 1..Len(own) |->
            [building_id |-> own[i].building_id,
             similarity |-> Round3(own[i].similarity)]]

\* The "matches" field of a result.
matches_of(qs) ==
    [i \in 1..Len(qs) |->
        [building_id |-> qs[i].building_id, similarity |-> Round3(qs[i].similarity)]]

\* Variant: the empty list is answered with an empty string for building_id.
empty_result_blank_building ==
    [status |-> "no_match",
     message |-> "No similar buildings found",
     building_id |-> <<>>,
     confidence |-> 0]

\* The result for an empty match list.
empty_result ==
    [status |-> "no_match",
     message |-> "No similar buildings found",
     building_id |-> None,
     confidence |-> 0]

\* Variants of the no-match result: the confidence of the lowest-ranked
\* match, and the top-ranked building kept as building_id.
no_match_result_lowest(rs) ==
    [status |-> "no_match",
     message |-> "No similar buildings found in database",
     building_id |-> None,
     confidence |-> IF rs # <<>> THEN Round3(rs[Len(rs)].similarity) ELSE 0]
no_match_result_keeps_building(rs) ==
    [status |-> "no_match",
     message |-> "No similar buildings found in database",
     building_id |-> IF rs # <<>> THEN rs[1].building_id ELSE None,
     confidence |-> IF rs # <<>> THEN Round3(rs[1].similarity) ELSE 0]

\* The result when no match clears the backup threshold.
no_match_result(rs) ==
    [status |-> "no_match",
     message |-> "No similar buildings found in database",
     building_id |-> None,
     confidence |-> IF rs # <<>> THEN Round3(rs[1].similarity) ELSE 0]

classify_results(rs, ct, bt) ==
    IF rs = <<>> THEN empty_result
    ELSE LET cr == confident_results(rs, ct)
             br == backup_results(rs, bt)
         IN  IF cr # <<>>
             THEN LET most_common_building == most_common(building_ids(cr))
                  IN  [status |-> "confident",
                       building_id |-> most_common_building,
                       confidence |->
                           avg_similarity(building_similarities(cr, most_common_building)),
                       matches |-> matches_of(cr)]
             ELSE IF br # <<>>
             THEN LET most_common_building == most_common(building_ids(br))
                  IN  [status |-> "uncertain",
                       message |-> "Low confidence match - building might be nearby",
                       building_id |-> most_common_building,
                       confidence |->
                           avg_similarity(building_similarities(br, most_common_building)),
                       matches |-> matches_of(br)]
             ELSE no_match_result(rs)

(***************************************************************************)
(* The service                                                             *)
(***************************************************************************)
\* The content types an upload can declare; a part without a Content-Type
\* header has content_type None.  IsImage is
\* image.content_type.startswith("image/") on a string.
NoContentType == "<None>"
ContentTypes == {"image/jpeg", "text/plain", "application/pdf", NoContentType}
IsImage(content_type) == content_type \in {"image/jpeg", "image/png"}

NoResponse == [status_code |-> 0]
Idle == response = NoResponse
NoUpload == "<no request>"

\* os.getenv of a required setting: None when the variable is unset, and a
\* set variable can be empty.  EMBEDDINGS_PATH can also hold a path that
\* does not start with "gs://".
Unset == "<unset>"
RequiredSettings == {"GCP_PROJECT", "EMBEDDINGS_PATH"}
ProjectValues == {Unset, "", "historicam"}
PathValues == {Unset, "", "gs://bucket/embeddings.jsonl", "embeddings.jsonl"}
Environments ==
    {e \in [RequiredSettings -> ProjectValues \cup PathValues] :
        e["GCP_PROJECT"] \in ProjectValues /\ e["EMBEDDINGS_PATH"] \in PathValues}

\* Variant: one required setting is enough.
all_set_any(e, names) == \E n \in names : e[n] \notin {Unset, ""}

\* all([...]) over the required settings: each is neither None nor empty.
all_set(e, names) == \A n \in names : e[n] \notin {Unset, ""}

\* gcs_path.startswith("gs://")
IsGcsPath(path) == path = "gs://bucket/embeddings.jsonl"

\* What __init__ invokes, in order, up to the index load; what a request
\* invokes up to the embedding provider, and after it.
InitCalls == <<"vertexai.init", "from_pretrained", "download_as_text">>
EmbedCalls == <<"resize_image_if_needed", "get_embeddings">>
RankCalls == <<"_compute_similarities">>
ClassifyCalls == <<"_classify_results">>

\* The environment of a process that has come up.
ServingEnv ==
    [n \in RequiredSettings |->
        IF n = "GCP_PROJECT" THEN "historicam" ELSE "gs://bucket/embeddings.jsonl"]

Init ==
    /\ \E n \in 0..MaxIndex : index = [i \in 1..n |-> SourceId(i)]
    /\ \E c \in Configs :
        /\ top_k = c.top_k
        /\ confidence_threshold = c.confidence_threshold
        /\ backup_threshold = c.backup_threshold
    /\ query = <<>>
    /\ results = <<>>
    /\ response = NoResponse
    /\ service = "up"
    /\ source = <<>>
    /\ vectors = <<>>
    /\ embedding = <<>>
    /\ upload = NoUpload
    /\ env = ServingEnv
    /\ calls = InitCalls
    /\ requests = <<>>
    /\ ClientAtRest
    /\ StoreAtRest

\* POST /identify with a part that has no Content-Type header:
\* None.startswith raises AttributeError and the framework answers 500.
IdentifyNoContentType ==
    /\ service = "up"
    /\ Idle
    /\ \E content_type \in ContentTypes :
        /\ content_type = NoContentType
        /\ upload' = content_type
        /\ response' = [status_code |-> 500]
        /\ calls' = <<>>
    /\ UNCHANGED <<index, top_k, confidence_threshold, backup_threshold, query, results>>
    /\ UNCHANGED <<service, source, vectors, embedding, env, requests>>
    /\ UNCHANGED <<clientVars, storeVars>>

\* POST /identify with an upload that is not an image: 400, nothing else runs.
IdentifyNotImage ==
    /\ service = "up"
    /\ Idle
    /\ \E content_type \in ContentTypes :
        /\ content_type # NoContentType
        /\ ~IsImage(content_type)
        /\ upload' = content_type
        /\ response' = [status_code |-> 400, detail |-> content_type]
        /\ calls' = <<>>
    /\ UNCHANGED <<index, top_k, confidence_threshold, backup_threshold, query, results>>
    /\ UNCHANGED <<service, source, vectors, embedding, env, requests>>
    /\ UNCHANGED <<clientVars, storeVars>>

\* Variant: the provider is called a second time before the failure is
\* given up on.
IdentifyEmbeddingFails_retries ==
    /\ service = "up"
    /\ Idle
    /\ \E content_type \in ContentTypes :
        /\ IsImage(content_type)
        /\ upload' = content_type
        /\ response' = [status_code |-> 500]
        /\ calls' = EmbedCalls \o <<"get_embeddings">>
    /\ UNCHANGED <<index, top_k, confidence_threshold, backup_threshold, query, results>>
    /\ UNCHANGED <<service, source, vectors, embedding, env, requests>>
    /\ UNCHANGED <<clientVars, storeVars>>

\* POST /identify where the embedding provider raises: the exception leaves
\* identify_building and the handler, and the framework answers 500.
IdentifyEmbeddingFails ==
    /\ service = "up"
    /\ Idle
    /\ \E content_type \in ContentTypes :
        /\ IsImage(content_type)
        /\ upload' = content_type
        /\ response' = [status_code |-> 500]
        /\ calls' = EmbedCalls
    /\ UNCHANGED <<index, top_k, confidence_threshold, backup_threshold, query, results>>
    /\ UNCHANGED <<service, source, vectors, embedding, env, requests>>
    /\ UNCHANGED <<clientVars, storeVars>>

\* POST /identify with an image: embed, rank, classify, answer 200.
Identify ==
    /\ service = "up"
    /\ Idle
    /\ \E content_type \in ContentTypes, cos \in [1..Len(index) -> SimValues] :
        /\ IsImage(content_type)
        /\ upload' = content_type
        /\ query' = cos
        /\ results' = compute_similarities(index, cos, top_k)
        /\ response' =
            [status_code |-> 200,
             body |-> classify_results(compute_similarities(index, cos, top_k),
                                       confidence_threshold, backup_threshold)]
        /\ calls' = EmbedCalls \o RankCalls \o ClassifyCalls
    /\ UNCHANGED <<index, top_k, confidence_threshold, backup_threshold>>
    /\ UNCHANGED <<service, source, vectors, embedding, env, requests>>
    /\ UNCHANGED <<clientVars, storeVars>>

\* The response is sent and the request's values are discarded.
Deliver ==
    /\ ~Idle
    /\ response' = NoResponse
    /\ query' = <<>>
    /\ results' = <<>>
    /\ embedding' = <<>>
    /\ upload' = NoUpload
    /\ calls' = <<>>
    /\ UNCHANGED <<index, top_k, confidence_threshold, backup_threshold>>
    /\ UNCHANGED <<service, source, vectors, env, requests>>
    /\ UNCHANGED <<clientVars, storeVars>>

Next ==
    \/ IdentifyNoContentType
    \/ IdentifyNotImage
    \/ IdentifyEmbeddingFails
    \/ Identify
    \/ Deliver

Spec == Init /\ [][Next]_vars

(***************************************************************************)
(* EmbeddingIndex: VisionService._load_embeddings_from_gcs, and the        *)
(* ranker on stored vectors                                                *)
(***************************************************************************)
\* The largest number of lines in the embeddings source.
MaxLines == 3

\* A line of the blob: a JSON object (the fields it has), text that is not
\* JSON, or an empty line.
Rec(id, emb) == [json |-> [id |-> id, embedding |-> emb]]
LinePool ==
    {Rec(<<"1", "_", "a">>, <<3, 4>>),
     Rec(<<"2", "_", "a">>, <<6, 8>>),
     Rec(<<"1", "_", "b">>, <<4, 3>>),
     Rec(<<"1", "_", "a">>, <<4, 3>>),
     Rec(<<"2", "_", "b">>, <<2, 3, 6>>),
     [json |-> [id |-> <<"1", "_", "c">>]],
     [text |-> "{"],
     [text |-> ""]}

RECURSIVE SeqsUpTo(_, _)
SeqsUpTo(S, n) ==
    IF n = 0 THEN {<<>>}
    ELSE LET shorter == SeqsUpTo(S, n - 1)
         IN  shorter \cup {Append(xs, x) : xs \in {ys \in shorter : Len(ys) = n - 1}, x \in S}

Sources == SeqsUpTo(LinePool, MaxLines)

\* The query vectors the embedding provider can return.
QueryVectors == {<<3, 4>>, <<4, 3>>, <<-4, 3>>, <<2, 3, 6>>}

\* Variant: a line that cannot be read is skipped like an empty one.
parse_line_lenient(line) ==
    IF "json" \notin DOMAIN line THEN [skip |-> TRUE, ok |-> TRUE]
    ELSE IF {"id", "embedding"} \subseteq DOMAIN line.json
         THEN [skip |-> FALSE, ok |-> TRUE,
               id |-> line.json.id, embedding |-> line.json.embedding]
    ELSE [skip |-> TRUE, ok |-> TRUE]

\* One pass of the loop body: `if line:` skips an empty line, json.loads
\* raises on text that is not JSON, record["id"] and record["embedding"]
\* raise KeyError on a missing field.
parse_line(line) ==
    IF "text" \in DOMAIN line /\ line.text = "" THEN [skip |-> TRUE, ok |-> TRUE]
    ELSE IF "json" \notin DOMAIN line THEN [skip |-> FALSE, ok |-> FALSE]
    ELSE IF {"id", "embedding"} \subseteq DOMAIN line.json
         THEN [skip |-> FALSE, ok |-> TRUE,
               id |-> line.json.id, embedding |-> line.json.embedding]
    ELSE [skip |-> FALSE, ok |-> FALSE]

\* index[id] = vector on a dict: a known id keeps its place and takes the
\* new vector, a new id goes to the end.
dict_set(acc, id, vector) ==
    IF \E p \in 1..Len(acc.ids) : acc.ids[p] = id
    THEN LET p == CHOOSE p \in 1..Len(acc.ids) : acc.ids[p] = id
         IN  [acc EXCEPT !.vecs[p] = vector]
    ELSE [acc EXCEPT !.ids = Append(@, id), !.vecs = Append(@, vector)]

\* The loop over the lines: the first line that raises ends the load.
RECURSIVE load_lines(_, _)
load_lines(lines, acc) ==
    IF lines = <<>> THEN acc
    ELSE LET r == parse_line(Head(lines))
         IN  IF ~r.ok THEN [ok |-> FALSE, ids |-> <<>>, vecs |-> <<>>]
             ELSE IF r.skip THEN load_lines(Tail(lines), acc)
             ELSE load_lines(Tail(lines), dict_set(acc, r.id, r.embedding))

load_embeddings(lines) == load_lines(lines, [ok |-> TRUE, ids |-> <<>>, vecs |-> <<>>])

\* np.dot of two vectors of one length, and np.linalg.norm (the vectors of
\* the model have whole norms).
Dot(a, b) == Sum([i \in 1..Len(a) |-> a[i] * b[i]])
Norm(v) == CHOOSE r \in 0..Dot(v, v) : r * r <= Dot(v, v) /\ Dot(v, v) < (r + 1) * (r + 1)

\* Variant: the vectors are not normalised before the dot product.
cosine_unnormalised(q, v) == Dot(q, v) * One

\* float(np.dot(query / norm(query), stored / norm(stored)))
cosine(q, v) == (Dot(q, v) * One) \div (Norm(q) * Norm(v))

\* Variants of the shape check: an empty index is refused, and a stored
\* vector longer than the query is cut to the query's length.
dot_raises_on_empty(q, vecs) ==
    vecs = <<>> \/ \E i \in 1..Len(vecs) : Len(vecs[i]) # Len(q)
dot_raises_truncating(q, vecs) == \E i \in 1..Len(vecs) : Len(vecs[i]) < Len(q)

\* np.dot raises ValueError for a stored vector whose length is not the
\* query's.
dot_raises(q, vecs) == \E i \in 1..Len(vecs) : Len(vecs[i]) # Len(q)

\* The process starts with default settings and the blob not yet read.
LoadInit ==
    /\ service = "starting"
    /\ source \in Sources
    /\ index = <<>>
    /\ vectors = <<>>
    /\ top_k \in {5, 1}
    /\ confidence_threshold = 7000
    /\ backup_threshold = 4000
    /\ query = <<>>
    /\ results = <<>>
    /\ response = NoResponse
    /\ embedding = <<>>
    /\ upload = NoUpload
    /\ env \in Environments
    /\ calls = <<>>
    /\ requests = <<>>
    /\ ClientAtRest
    /\ StoreAtRest

\* VisionService(): the required settings are checked, the embedding model
\* is initialised and the index is loaded; an exception leaves __init__ and
\* the module import, and the process never serves.
Start ==
    /\ service = "starting"
    /\ IF ~all_set(env, RequiredSettings)
       THEN /\ service' = "failed"
            /\ calls' = <<>>
            /\ UNCHANGED <<index, vectors>>
       ELSE IF ~IsGcsPath(env["EMBEDDINGS_PATH"])
       THEN /\ service' = "failed"
            /\ calls' = SubSeq(InitCalls, 1, 2)
            /\ UNCHANGED <<index, vectors>>
       ELSE LET loaded == load_embeddings(source)
            IN  /\ calls' = InitCalls
                /\ IF loaded.ok
                   THEN /\ index' = loaded.ids
                        /\ vectors' = loaded.vecs
                        /\ service' = "up"
                   ELSE /\ service' = "failed"
                        /\ UNCHANGED <<index, vectors>>
    /\ UNCHANGED <<top_k, confidence_threshold, backup_threshold, source>>
    /\ UNCHANGED <<query, results, response, embedding, upload, env, requests>>
    /\ UNCHANGED <<clientVars, storeVars>>

\* Variant: the ranker keeps its sorted, cut list as the new index.
IdentifyVector_keeps_ranked ==
    /\ service = "up"
    /\ Idle
    /\ \E content_type \in ContentTypes, q \in QueryVectors :
        /\ IsImage(content_type)
        /\ upload' = content_type
        /\ embedding' = q
        /\ IF dot_raises(q, vectors)
           THEN /\ response' = [status_code |-> 500]
                /\ calls' = EmbedCalls \o RankCalls
                /\ UNCHANGED <<query, results, index, vectors>>
           ELSE LET cos == [i \in 1..Len(vectors) |-> cosine(q, vectors[i])]
                    ranked == compute_similarities(index, cos, top_k)
                    at(id) == CHOOSE p \in 1..Len(index) : index[p] = id
                IN  /\ query' = cos
                    /\ calls' = EmbedCalls \o RankCalls \o ClassifyCalls
                    /\ results' = ranked
                    /\ index' = [i \in 1..Len(ranked) |-> ranked[i].id]
                    /\ vectors' = [i \in 1..Len(ranked) |-> vectors[at(ranked[i].id)]]
                    /\ response' =
                        [status_code |-> 200,
                         body |-> classify_results(ranked, confidence_threshold,
                                                   backup_threshold)]
    /\ UNCHANGED <<top_k, confidence_threshold, backup_threshold>>
    /\ UNCHANGED <<service, source, env, requests>>
    /\ UNCHANGED <<clientVars, storeVars>>

\* POST /identify with an image, on stored vectors: embed, rank, classify.
\* A ValueError of np.dot leaves the handler and the framework answers 500.
IdentifyVector ==
    /\ service = "up"
    /\ Idle
    /\ \E content_type \in ContentTypes, q \in QueryVectors :
        /\ IsImage(content_type)
        /\ upload' = content_type
        /\ embedding' = q
        /\ IF dot_raises(q, vectors)
           THEN /\ response' = [status_code |-> 500]
                /\ calls' = EmbedCalls \o RankCalls
                /\ UNCHANGED <<query, results>>
           ELSE LET cos == [i \in 1..Len(vectors) |-> cosine(q, vectors[i])]
                IN  /\ query' = cos
                    /\ calls' = EmbedCalls \o RankCalls \o ClassifyCalls
                    /\ results' = compute_similarities(index, cos, top_k)
                    /\ response' =
                        [status_code |-> 200,
                         body |-> classify_results(
                                      compute_similarities(index, cos, top_k),
                                      confidence_threshold, backup_threshold)]
    /\ UNCHANGED <<index, top_k, confidence_threshold, backup_threshold>>
    /\ UNCHANGED <<service, source, vectors, env, requests>>
    /\ UNCHANGED <<clientVars, storeVars>>

LoadNext ==
    \/ Start
    \/ IdentifyNoContentType
    \/ IdentifyNotImage
    \/ IdentifyEmbeddingFails
    \/ IdentifyVector
    \/ Deliver

LoadSpec == LoadInit /\ [][LoadNext]_vars

(***************************************************************************)
(* The vector-search variant: services/api/src/vision_service.py           *)
(***************************************************************************)
\* The largest number of neighbors the endpoint returns.
MaxNeighbors == 3

\* The settings the variant requires, and what they can hold.
ApiRequiredSettings == {"GCP_PROJECT", "VERTEX_ENDPOINT_ID", "DEPLOYED_INDEX_ID"}
ApiEnvironments == [ApiRequiredSettings -> {Unset, "", "set"}]
ApiInitCalls ==
    <<"vertexai.init", "aiplatform.init", "from_pretrained", "MatchingEngineIndexEndpoint">>
ApiRequestCalls == <<"get_embeddings", "find_neighbors", "_classify_results">>

\* The pairs (CONFIDENCE_THRESHOLD, BACKUP_THRESHOLD) of the variant's runs.
ApiThresholds == {<<7000, 4000>>, <<4000, 4000>>, <<7000, -5000>>}

\* The neighbors find_neighbors can return: an id and a dot-product
\* distance, 1 - similarity for normalised embeddings.
NeighborIds == {<<"1", "_", "a">>, <<"2", "_", "a">>, <<"2">>}
Distances == {0, 2996, 6000, 12000}
Neighbors == [id : NeighborIds, distance : Distances]
NeighborLists(k) == SeqsUpTo(Neighbors, k)

\* _query_vector_search: each neighbor with the building its id names.
parse_neighbors(neighbors) ==
    [i \in 1..Len(neighbors) |->
        [id |-> neighbors[i].id,
         building_id |-> BuildingOf(neighbors[i].id),
         distance |-> neighbors[i].distance]]

\* Variant: the distance is taken for the similarity.
with_similarity_raw(rs) ==
    [i \in 1..Len(rs) |->
        [id |-> rs[i].id, building_id |-> rs[i].building_id,
         distance |-> rs[i].distance, similarity |-> rs[i].distance]]

\* for result in results: result['similarity'] = 1.0 - result['distance']
with_similarity(rs) ==
    [i \in 1..Len(rs) |->
        [id |-> rs[i].id, building_id |-> rs[i].building_id,
         distance |-> rs[i].distance, similarity |-> One - rs[i].distance]]

\* The variant's _classify_results, on the parsed neighbors.
api_classify_results(rs, ct, bt) ==
    IF rs = <<>>
    THEN [status |-> "no_match",
          message |-> "No similar buildings found",
          building_id |-> None,
          confidence |-> 0]
    ELSE LET ss == with_similarity(rs)
             confident == SelectSeq(ss, LAMBDA r : r.similarity >= ct)
             backup == SelectSeq(ss, LAMBDA r : r.similarity >= bt)
             winner(qs) == most_common([i \in 1..Len(qs) |-> qs[i].building_id])
             own(qs) == SelectSeq(qs, LAMBDA r : r.building_id = winner(qs))
             avg(qs) == RoundDiv(Sum([i \in 1..Len(own(qs)) |-> own(qs)[i].similarity]),
                                 Len(own(qs)))
             listed(qs) ==
                 [i \in 1..Len(qs) |->
                     [building_id |-> qs[i].building_id,
                      similarity |-> Round3(qs[i].similarity)]]
         IN  IF confident # <<>>
             THEN [status |-> "confident",
                   building_id |-> winner(confident),
                   confidence |-> avg(confident),
                   matches |-> listed(confident)]
             ELSE IF backup # <<>>
             THEN [status |-> "uncertain",
                   message |-> "Low confidence match - building might be nearby",
                   building_id |-> winner(backup),
                   confidence |-> avg(backup),
                   matches |-> listed(backup)]
             ELSE [status |-> "no_match",
                   message |-> "No similar buildings found in database",
                   building_id |-> None,
                   confidence |-> Round3(ss[1].similarity)]

\* The process of the variant before construction.
ApiInit ==
    /\ service = "starting"
    /\ env \in ApiEnvironments
    /\ top_k \in {1, MaxNeighbors}
    /\ \E t \in ApiThresholds :
        /\ confidence_threshold = t[1]
        /\ backup_threshold = t[2]
    /\ index = <<>>
    /\ vectors = <<>>
    /\ source = <<>>
    /\ query = <<>>
    /\ results = <<>>
    /\ response = NoResponse
    /\ embedding = <<>>
    /\ upload = NoUpload
    /\ calls = <<>>
    /\ requests = <<>>
    /\ ClientAtRest
    /\ StoreAtRest

\* VisionService() of the variant: the required settings are checked before
\* anything is initialised.
ApiStart ==
    /\ service = "starting"
    /\ IF ~all_set(env, ApiRequiredSettings)
       THEN /\ service' = "failed"
            /\ calls' = <<>>
       ELSE /\ service' = "up"
            /\ calls' = ApiInitCalls
    /\ UNCHANGED <<index, top_k, confidence_threshold, backup_threshold>>
    /\ UNCHANGED <<query, results, response, source, vectors, embedding>>
    /\ UNCHANGED <<upload, env, requests>>
    /\ UNCHANGED <<clientVars, storeVars>>

\* identify_building of the variant: embed, query the endpoint for top_k
\* neighbors, classify.  The value returned is kept as an answered request.
ApiIdentify ==
    /\ service = "up"
    /\ Idle
    /\ \E neighbors \in NeighborLists(top_k) :
        LET parsed == parse_neighbors(neighbors)
        IN  /\ results' = with_similarity(parsed)
            /\ response' =
                [status_code |-> 200,
                 body |-> api_classify_results(parsed, confidence_threshold,
                                               backup_threshold)]
    /\ calls' = ApiRequestCalls
    /\ UNCHANGED <<index, top_k, confidence_threshold, backup_threshold>>
    /\ UNCHANGED <<query, service, source, vectors, embedding>>
    /\ UNCHANGED <<upload, env, requests>>
    /\ UNCHANGED <<clientVars, storeVars>>

ApiNext ==
    \/ ApiStart
    \/ ApiIdentify
    \/ Deliver

ApiSpec == ApiInit /\ [][ApiNext]_vars

(***************************************************************************)
(* The offline evaluation: vision-setup/src/evaluation/evaluate.py and     *)
(* vision/src/evaluation/evaluate.py                                       *)
(***************************************************************************)
\* The matches the script builds from the ranked (id, similarity) pairs:
\* building_id = image_id.split('_')[0].
evaluate_matches(rs) ==
    [i \in 1..Len(rs) |->
        [building_id |-> BuildingOf(rs[i].id),
         image_id |-> rs[i].id,
         similarity |-> rs[i].similarity]]

\* "Apply classification logic (majority vote above threshold)": the vote is
\* over the matches at or above the confidence threshold, and over all the
\* matches when there is none.
evaluate_decision(matches, ct) ==
    LET confident_matches == SelectSeq(matches, LAMBDA m : m.similarity >= ct)
        ids(ms) == [i \in 1..Len(ms) |-> ms[i].building_id]
    IN  IF confident_matches # <<>>
        THEN [status |-> "confident",
              predicted_building |-> most_common(ids(confident_matches))]
        ELSE IF matches # <<>>
        THEN [status |-> "uncertain",
              predicted_building |-> most_common(ids(matches))]
        ELSE [status |-> "no_match", predicted_building |-> None]

(***************************************************************************)
(* Concurrent requests: the async handler of services/vision/src/main.py   *)
(***************************************************************************)
\* The largest number of requests one run receives.
MaxRequests == 3

\* The uploads' bytes, and the vector a deterministic provider returns for
\* each of them.
Images == {"photo_a", "photo_b"}
provider(image_bytes) == IF image_bytes = "photo_a" THEN <<3, 4>> ELSE <<4, 3>>

\* The sources the service has loaded its index from: three vectors of one
\* dimension (two of one direction), vectors of two dimensions, and no
\* record at all.
ServedSources ==
    {<<Rec(<<"1", "_", "a">>, <<3, 4>>), Rec(<<"2", "_", "a">>, <<6, 8>>),
       Rec(<<"1", "_", "b">>, <<4, 3>>)>>,
     <<Rec(<<"1", "_", "a">>, <<3, 4>>), Rec(<<"2", "_", "b">>, <<2, 3, 6>>)>>,
     <<[text |-> ""]>>}

\* VisionService.identify_building on the embedding q: what the handler
\* answers, from the index and the settings the call reads.
identify_building(q, idx, vecs, k, ct, bt) ==
    IF dot_raises(q, vecs) THEN [status_code |-> 500]
    ELSE [status_code |-> 200,
          body |-> classify_results(
                       compute_similarities(
                           idx, [i \in 1..Len(vecs) |-> cosine(q, vecs[i])], k),
                       ct, bt)]

\* A service that is up, with no request received yet.
ConcInit ==
    /\ service = "up"
    /\ source \in ServedSources
    /\ index = load_embeddings(source).ids
    /\ vectors = load_embeddings(source).vecs
    /\ top_k \in {5, 1}
    /\ confidence_threshold = 7000
    /\ backup_threshold = 4000
    /\ query = <<>>
    /\ results = <<>>
    /\ response = NoResponse
    /\ embedding = <<>>
    /\ upload = NoUpload
    /\ env = ServingEnv
    /\ calls = InitCalls
    /\ requests = <<>>
    /\ ClientAtRest
    /\ StoreAtRest

\* A request enters the handler: the content type is checked, and for an
\* image the coroutine is suspended in `await image.read()`.
HandlerReceive ==
    /\ service = "up"
    /\ Len(requests) < MaxRequests
    /\ \E content_type \in ContentTypes, image_bytes \in Images :
        requests' = Append(requests,
            [content_type |-> content_type,
             image_bytes |-> image_bytes,
             response |-> IF content_type = NoContentType THEN [status_code |-> 500]
                          ELSE IF ~IsImage(content_type)
                               THEN [status_code |-> 400, detail |-> content_type]
                          ELSE NoResponse])
    /\ UNCHANGED <<index, top_k, confidence_threshold, backup_threshold>>
    /\ UNCHANGED <<query, results, response, service, source, vectors, embedding>>
    /\ UNCHANGED <<upload, env, calls>>
    /\ UNCHANGED <<clientVars, storeVars>>

\* Variant: the handler keeps the bytes it has read in one module-level
\* slot, which the request received last has overwritten.
HandlerIdentify_shared_bytes(r) ==
    /\ r \in 1..Len(requests)
    /\ requests[r].response = NoResponse
    /\ requests' =
        [requests EXCEPT ![r].response =
            identify_building(provider(requests[Len(requests)].image_bytes),
                              index, vectors,
                              top_k, confidence_threshold, backup_threshold)]
    /\ UNCHANGED <<index, top_k, confidence_threshold, backup_threshold>>
    /\ UNCHANGED <<query, results, response, service, source, vectors, embedding>>
    /\ UNCHANGED <<upload, env, calls>>
    /\ UNCHANGED <<clientVars, storeVars>>

\* The read of request r has finished and the coroutine is resumed:
\* identify_building has no await inside, so embedding, ranking and
\* classification run to the end before any other coroutine.
HandlerIdentify(r) ==
    /\ r \in 1..Len(requests)
    /\ requests[r].response = NoResponse
    /\ requests' =
        [requests EXCEPT ![r].response =
            identify_building(provider(requests[r].image_bytes), index, vectors,
                              top_k, confidence_threshold, backup_threshold)]
    /\ UNCHANGED <<index, top_k, confidence_threshold, backup_threshold>>
    /\ UNCHANGED <<query, results, response, service, source, vectors, embedding>>
    /\ UNCHANGED <<upload, env, calls>>
    /\ UNCHANGED <<clientVars, storeVars>>

ConcNext ==
    \/ HandlerReceive
    \/ \E r \in 1..MaxRequests : HandlerIdentify(r)

ConcSpec == ConcInit /\ [][ConcNext]_vars

(***************************************************************************)
(* The lazily created LLM client: ml/llm-rag/rag_core.py, get_llm_client   *)
(***************************************************************************)
\* The number of threads that call get_llm_client.
MaxThreads == 3

\* The vision service's variables in a process that does not run it.
visionVars ==
    <<index, top_k, confidence_threshold, backup_threshold, query, results,
      response, service, source, vectors, embedding, upload, env, calls, requests>>
VisionAbsent ==
    /\ service = "absent"
    /\ index = <<>>
    /\ vectors = <<>>
    /\ source = <<>>
    /\ top_k = 5
    /\ confidence_threshold = 7000
    /\ backup_threshold = 4000
    /\ query = <<>>
    /\ results = <<>>
    /\ response = NoResponse
    /\ embedding = <<>>
    /\ upload = NoUpload
    /\ env = ServingEnv
    /\ calls = <<>>
    /\ requests = <<>>

\* What a call has returned: nothing yet, the RuntimeError raised for
\* missing credentials, or a client (clients are numbered as they are
\* constructed).
NoReturn == [kind |-> "none", client |-> NoClient]
RuntimeError == [kind |-> "RuntimeError", client |-> NoClient]
Client(c) == [kind |-> "client", client |-> c]

\* The client a successful genai.Client(...) returns: a new object, the
\* next after the stored one.
new_client == IF llm_client = NoClient THEN 1 ELSE llm_client + 1

ClientInit ==
    /\ llm_client = NoClient
    /\ llm_lock = NoThread
    /\ threads = [t \in 1..MaxThreads |-> [pc |-> "idle", ret |-> NoReturn]]
    /\ versions_json = NoBlob
    /\ uploaders = <<>>
    /\ completed = <<>>
    /\ VisionAbsent

\* Thread t calls get_llm_client().
Call(t) ==
    /\ threads[t].pc = "idle"
    /\ threads' = [threads EXCEPT ![t] = [pc |-> "check", ret |-> NoReturn]]
    /\ UNCHANGED <<llm_client, llm_lock, visionVars, storeVars>>

\* if _llm_client is not None: return _llm_client   (outside the lock)
FirstCheck(t) ==
    /\ threads[t].pc = "check"
    /\ threads' =
        [threads EXCEPT ![t] =
            IF llm_client # NoClient THEN [pc |-> "idle", ret |-> Client(llm_client)]
            ELSE [pc |-> "wait", ret |-> NoReturn]]
    /\ UNCHANGED <<llm_client, llm_lock, visionVars, storeVars>>

\* with _llm_lock: the thread blocks until the lock is free.
Acquire(t) ==
    /\ threads[t].pc = "wait"
    /\ llm_lock = NoThread
    /\ llm_lock' = t
    /\ threads' = [threads EXCEPT ![t].pc = "locked"]
    /\ UNCHANGED <<llm_client, visionVars, storeVars>>

\* Variant: no second check under the lock.
SecondCheck_absent(t) ==
    /\ threads[t].pc = "locked"
    /\ threads' = [threads EXCEPT ![t].pc = "construct"]
    /\ UNCHANGED <<llm_client, llm_lock, visionVars, storeVars>>

\* if _llm_client is not None: return _llm_client   (under the lock; the
\* return leaves the with block and releases it)
SecondCheck(t) ==
    /\ threads[t].pc = "locked"
    /\ IF llm_client # NoClient
       THEN /\ threads' = [threads EXCEPT ![t] = [pc |-> "idle", ret |-> Client(llm_client)]]
            /\ llm_lock' = NoThread
       ELSE /\ threads' = [threads EXCEPT ![t].pc = "construct"]
            /\ UNCHANGED llm_lock
    /\ UNCHANGED <<llm_client, visionVars, storeVars>>

\* genai.Client(...) returns: the client is stored and returned, and the
\* with block releases the lock.
Construct(t) ==
    /\ threads[t].pc = "construct"
    /\ llm_client' = new_client
    /\ threads' = [threads EXCEPT ![t] = [pc |-> "idle", ret |-> Client(new_client)]]
    /\ llm_lock' = NoThread
    /\ UNCHANGED <<visionVars, storeVars>>

\* genai.Client(...) raises DefaultCredentialsError: RuntimeError is raised
\* from it, the assignment is not reached, the with block releases the lock.
ConstructFails(t) ==
    /\ threads[t].pc = "construct"
    /\ threads' = [threads EXCEPT ![t] = [pc |-> "idle", ret |-> RuntimeError]]
    /\ llm_lock' = NoThread
    /\ UNCHANGED <<llm_client, visionVars, storeVars>>

ClientNext ==
    \E t \in 1..MaxThreads :
        \/ Call(t)
        \/ FirstCheck(t)
        \/ Acquire(t)
        \/ SecondCheck(t)
        \/ Construct(t)
        \/ ConstructFails(t)

ClientSpec == ClientInit /\ [][ClientNext]_vars

(***************************************************************************)
(* The version history: lib/gcs_utils/manager.py, GCSDataManager           *)
(***************************************************************************)
\* The number of processes that upload, and of uploads in one run.
MaxUploaders == 2
MaxUploads == 3

\* The uploads under way, and the versions they carry.  A version is the
\* UTC time of the call, kept as the number of the call.
Uploading == {u \in 1..Len(uploaders) : uploaders[u].pc # "idle"}
Begun == Len(completed) + Cardinality(Uploading)
next_version ==
    1 + Cardinality({uploaders[u].version : u \in Uploading}
                    \cup {completed[i] : i \in 1..Len(completed)})

\* The entry _update_version_metadata builds for a version.
version_info(version) == [version |-> version]

\* list_versions(): the "versions" of the blob, [] when it cannot be read.
list_versions == IF versions_json.exists THEN versions_json.versions ELSE <<>>

StoreInit ==
    /\ versions_json = NoBlob
    /\ uploaders =
        [u \in 1..MaxUploaders |-> [pc |-> "idle", version |-> 0, existing_data |-> <<>>]]
    /\ completed = <<>>
    /\ llm_client = NoClient
    /\ llm_lock = NoThread
    /\ threads = <<>>
    /\ VisionAbsent

\* upload_images_with_versioning up to the metadata update: the images and
\* the manifest are uploaded (a failed file is counted, not raised).
BeginUpload(u) ==
    /\ uploaders[u].pc = "idle"
    /\ Begun < MaxUploads
    /\ uploaders' =
        [uploaders EXCEPT ![u] =
            [pc |-> "download", version |-> next_version, existing_data |-> <<>>]]
    /\ UNCHANGED <<versions_json, completed, visionVars, clientVars>>

\* existing_data = json.loads(blob.download_as_text()); a blob that does
\* not exist raises, and `except Exception` starts an empty history.
DownloadMetadata(u) ==
    /\ uploaders[u].pc = "download"
    /\ uploaders' =
        [uploaders EXCEPT ![u].pc = "upload",
                          ![u].existing_data =
                              IF versions_json.exists THEN versions_json.versions
                              ELSE <<>>]
    /\ UNCHANGED <<versions_json, completed, visionVars, clientVars>>

\* The download raises for another reason (the network, the credentials, a
\* blob that is not JSON): the same handler starts an empty history.
DownloadFails(u) ==
    /\ uploaders[u].pc = "download"
    /\ uploaders' = [uploaders EXCEPT ![u].pc = "upload", ![u].existing_data = <<>>]
    /\ UNCHANGED <<versions_json, completed, visionVars, clientVars>>

\* existing_data["versions"].append(version_info); blob.upload_from_string:
\* the blob is overwritten and the call returns.
UploadMetadata(u) ==
    /\ uploaders[u].pc = "upload"
    /\ versions_json' =
        [exists |-> TRUE,
         versions |-> Append(uploaders[u].existing_data,
                             version_info(uploaders[u].version))]
    /\ completed' = Append(completed, uploaders[u].version)
    /\ uploaders' = [uploaders EXCEPT ![u].pc = "idle"]
    /\ UNCHANGED <<visionVars, clientVars>>

\* upload_from_string raises: the exception leaves the call, which has not
\* completed.
UploadFails(u) ==
    /\ uploaders[u].pc = "upload"
    /\ uploaders' = [uploaders EXCEPT ![u].pc = "idle"]
    /\ UNCHANGED <<versions_json, completed, visionVars, clientVars>>

StoreNext ==
    \E u \in 1..MaxUploaders :
        \/ BeginUpload(u)
        \/ DownloadMetadata(u)
        \/ DownloadFails(u)
        \/ UploadMetadata(u)
        \/ UploadFails(u)

StoreSpec == StoreInit /\ [][StoreNext]_vars

(***************************************************************************)
(* Properties                                                              *)
(***************************************************************************)
Served == response.status_code = 200
Body == response.body
Statuses == {"confident", "uncertain", "no_match"}
InTier == Served /\ Body.status \in {"confident", "uncertain"}

\* Some ranked match has similarity >= t.
AnyAtLeast(t) == \E i \in 1..Len(results) : results[i].similarity >= t

\* The threshold of the tier the result is in, and the ranks of the matches
\* at or above it (the qualifying set).
TierThreshold ==
    IF Body.status = "confident" THEN confidence_threshold ELSE backup_threshold
Qualifying == {i \in 1..Len(results) : results[i].similarity >= TierThreshold}

\* The number of qualifying matches of building b.
Votes(b) == Cardinality({i \in Qualifying : results[i].building_id = b})

\* The rank of the k-th qualifying match.
QualifyingRank(k) ==
    CHOOSE i \in Qualifying : Cardinality({j \in Qualifying : j < i}) = k - 1

\* The sum of the similarities of building b's qualifying matches among the
\* first k ranks.
RECURSIVE OwnSum(_, _)
OwnSum(k, b) ==
    IF k = 0 THEN 0
    ELSE OwnSum(k - 1, b)
         + (IF k \in Qualifying /\ results[k].building_id = b
            THEN results[k].similarity ELSE 0)

\* r is num / den rounded to 3 decimal places (either way on an exact half).
IsRounded(r, num, den) ==
    /\ r % Milli = 0
    /\ 2 * (r * den - num) <= Milli * den
    /\ 2 * (num - r * den) <= Milli * den

\* C1: for a non-empty ranked list and confidence_threshold >=
\* backup_threshold, the status is confident iff some match is at or above
\* the confidence threshold, otherwise uncertain iff some match is at or above
\* the backup threshold, otherwise no_match; exactly one status is returned.
C1_StatusByThresholds ==
    (Served /\ results # <<>> /\ confidence_threshold >= backup_threshold) =>
        /\ Body.status \in Statuses
        /\ (Body.status = "confident") <=> AnyAtLeast(confidence_threshold)
        /\ (Body.status = "uncertain") <=>
               (~AnyAtLeast(confidence_threshold) /\ AnyAtLeast(backup_threshold))
        /\ (Body.status = "no_match") <=> ~AnyAtLeast(backup_threshold)

C1_Witness ==
    /\ Served
    /\ confidence_threshold > backup_threshold
    /\ Body.status = "uncertain"
    /\ AnyAtLeast(backup_threshold)
    /\ \E i \in 1..Len(results) : results[i].similarity < backup_threshold

\* C2: in the confident and the uncertain tier the returned building_id has a
\* vote in the qualifying set and no building has more votes there; with 3
\* votes for A and 2 for B the result is A.
C2_MajorityVote ==
    InTier =>
        /\ Votes(Body.building_id) >= 1
        /\ \A i \in Qualifying : Votes(results[i].building_id) <= Votes(Body.building_id)
        /\ \A i, j \in Qualifying :
               (Votes(results[i].building_id) = 3 /\ Votes(results[j].building_id) = 2)
                   => Body.building_id = results[i].building_id

\* Building A has 3 votes and B has 2 above the threshold, B ranks first, and
\* a match below the threshold exists or not: A is returned.
C2_Witness ==
    /\ InTier
    /\ Votes(Body.building_id) = 3
    /\ \E j \in Qualifying :
           /\ Votes(results[j].building_id) = 2
           /\ j = 1

\* C3: when several buildings share the highest vote count of the qualifying
\* set, the returned one is the one whose first member ranks earliest.
FirstRank(b) ==
    CHOOSE i \in 1..Len(results) :
        /\ results[i].building_id = b
        /\ \A j \in 1..(i - 1) : results[j].building_id # b

C3_TieBreakFirstRanked ==
    InTier =>
        \A i \in Qualifying :
            Votes(results[i].building_id) = Votes(Body.building_id)
                => FirstRank(Body.building_id) <= i

\* Two buildings tie with two votes each and the winner is the one that is
\* loaded second in the index.
C3_Witness ==
    /\ InTier
    /\ Votes(Body.building_id) = 2
    /\ Body.building_id = <<"2">>
    /\ \E i \in Qualifying :
           /\ results[i].building_id # Body.building_id
           /\ Votes(results[i].building_id) = 2

\* C4: in the confident and the uncertain tier the confidence is the mean of
\* the similarities of the winning building's qualifying matches, rounded to
\* 3 decimal places; nothing else enters the mean.
C4_ConfidenceIsWinnerMean ==
    InTier =>
        IsRounded(Body.confidence,
                  OwnSum(Len(results), Body.building_id),
                  Votes(Body.building_id))

\* The winner has two qualifying matches of different similarity, another
\* building qualifies with a different similarity, a match lies below the
\* threshold, and the mean is not a multiple of 0.001.
C4_Witness ==
    /\ InTier
    /\ Votes(Body.building_id) >= 2
    /\ \E i, j \in Qualifying :
           /\ results[i].building_id = Body.building_id
           /\ results[j].building_id = Body.building_id
           /\ results[i].similarity # results[j].similarity
    /\ \E i \in Qualifying :
           /\ results[i].building_id # Body.building_id
           /\ Round3(results[i].similarity) # Body.confidence
    /\ Cardinality(Qualifying) < Len(results)
    /\ Body.confidence * Votes(Body.building_id)
           # OwnSum(Len(results), Body.building_id)

\* C5: for a non-empty list with no match at or above the backup threshold
\* (thresholds in order), the result is no_match with building_id null and
\* the confidence is the similarity of the highest-ranked match rounded to 3
\* places; all similarities 0 give no_match with confidence 0.0.
C5_NoMatchTopSimilarity ==
    (Served /\ results # <<>> /\ confidence_threshold >= backup_threshold
        /\ ~AnyAtLeast(backup_threshold)) =>
        /\ Body.status = "no_match"
        /\ Body.building_id = None
        /\ \A i \in 1..Len(results) : results[i].similarity <= results[1].similarity
        /\ IsRounded(Body.confidence, results[1].similarity, 1)
        /\ (\A i \in 1..Len(results) : results[i].similarity = 0) => Body.confidence = 0

\* A query orthogonal to every indexed vector.
C5_Witness ==
    /\ Served
    /\ Len(results) >= 2
    /\ \A i \in 1..Len(query) : query[i] = 0
    /\ Body.status = "no_match"
    /\ Body.confidence = 0

\* C6: an empty match list is answered (200, not an error) with no_match,
\* building_id null and confidence 0.0.
C6_EmptyListNoMatch ==
    (Served /\ results = <<>>) =>
        /\ Body.status = "no_match"
        /\ Body.building_id = None
        /\ Body.confidence = 0

C6_Witness ==
    /\ Served
    /\ index = <<>>
    /\ results = <<>>
    /\ Body.status = "no_match"

\* C7: in the confident (uncertain) tier the matches field holds exactly the
\* entries of the confident (backup) set, in ranked order, losers of the vote
\* included, entries below the threshold excluded; similarities are rounded.
C7_MatchesAreQualifyingSet ==
    InTier =>
        /\ Len(Body.matches) = Cardinality(Qualifying)
        /\ \A k \in 1..Len(Body.matches) :
               /\ Body.matches[k].building_id = results[QualifyingRank(k)].building_id
               /\ IsRounded(Body.matches[k].similarity,
                            results[QualifyingRank(k)].similarity, 1)

C7_Witness ==
    /\ InTier
    /\ Len(Body.matches) >= 3
    /\ Len(Body.matches) < Len(results)
    /\ \E k \in 1..Len(Body.matches) : Body.matches[k].building_id # Body.building_id
    /\ \E k \in 1..Len(Body.matches) :
           Body.matches[k].similarity # results[k].similarity

\* C8 as claimed: the confidence of every result lies in [0, 1].
C8_ConfidenceInUnitInterval ==
    Served => (0 <= Body.confidence /\ Body.confidence <= One)

\* C8 amended: the confidence of every result lies in [-1, 1], and in [0, 1]
\* when no ranked match has a negative similarity.
C8_ConfidenceInCosineRange ==
    Served =>
        /\ -One <= Body.confidence
        /\ Body.confidence <= One
        /\ (\A i \in 1..Len(results) : results[i].similarity >= 0) => Body.confidence >= 0

C8_Witness ==
    /\ Served
    /\ results # <<>>
    /\ Body.confidence < 0
    /\ Body.confidence = Round3(results[1].similarity)

\* C9: for a fixed list and backup threshold, a higher confidence threshold
\* never gives a higher status (no_match < uncertain < confident), and where
\* it gives a different one the status was confident.
StatusRank(s) == IF s = "confident" THEN 2 ELSE IF s = "uncertain" THEN 1 ELSE 0

C9_ThresholdMonotonicity ==
    Served =>
        \A t \in ThresholdValues :
            t >= confidence_threshold =>
                LET raised == classify_results(results, t, backup_threshold).status
                IN  /\ StatusRank(raised) <= StatusRank(Body.status)
                    /\ raised # Body.status => Body.status = "confident"

\* One confident list stays confident under one higher threshold and becomes
\* uncertain under another.
C9_Witness ==
    /\ Served
    /\ Body.status = "confident"
    /\ \E t \in ThresholdValues :
           /\ t > confidence_threshold
           /\ classify_results(results, t, backup_threshold).status = "uncertain"
    /\ \E t \in ThresholdValues :
           /\ t > confidence_threshold
           /\ classify_results(results, t, backup_threshold).status = "confident"

\* C10: every result carries status, building_id and confidence, also where
\* matches is absent, and building_id is null exactly when status is no_match.
C10_RequiredFields ==
    Served =>
        /\ {"status", "building_id", "confidence"} \subseteq DOMAIN Body
        /\ Body.status \in Statuses
        /\ (Body.building_id = None) <=> (Body.status = "no_match")

C10_Witness ==
    /\ Served
    /\ results # <<>>
    /\ Body.status = "no_match"
    /\ "matches" \notin DOMAIN Body
    /\ Body.building_id = None

\* C11 as claimed: a confident result's confidence is not below the
\* configured confidence_threshold.
C11_ConfidentAtLeastThreshold ==
    (Served /\ Body.status = "confident") => Body.confidence >= confidence_threshold

\* C11 amended: a confident result's confidence is not below the configured
\* confidence_threshold rounded to 3 decimal places, so it is not below a
\* threshold that has at most 3 decimal places (the default 0.7).
C11_ConfidentAtLeastRoundedThreshold ==
    (Served /\ Body.status = "confident") =>
        /\ 2 * (confidence_threshold - Body.confidence) <= Milli
        /\ confidence_threshold % Milli = 0 => Body.confidence >= confidence_threshold

\* A confident result under a threshold of 0.7004 whose winning building has
\* two matches of different similarity.
C11_Witness ==
    /\ Served
    /\ Body.status = "confident"
    /\ confidence_threshold % Milli # 0
    /\ Votes(Body.building_id) = 2
    /\ Body.confidence > confidence_threshold

\* The index position of an image id, and the positions rank returned.
PosOf(image_id) == CHOOSE p \in 1..Len(index) : index[p] = image_id
Returned == {PosOf(results[i].id) : i \in 1..Len(results)}
LeftOut == (1..Len(index)) \ Returned
Min(a, b) == IF a <= b THEN a ELSE b

\* C12: the ranked list is ordered by non-increasing similarity, holds no id
\* twice, every entry is an indexed vector with its own similarity, and no
\* vector left out is strictly more similar than a returned one.
C12_ExactTopK ==
    Served =>
        /\ \A i \in 1..(Len(results) - 1) :
               results[i].similarity >= results[i + 1].similarity
        /\ \A i, j \in 1..Len(results) : i # j => results[i].id # results[j].id
        /\ \A i \in 1..Len(results) :
               \E p \in 1..Len(index) :
                   index[p] = results[i].id /\ query[p] = results[i].similarity
        /\ \A p \in LeftOut : \A i \in 1..Len(results) :
               query[p] <= results[i].similarity

\* Two of five vectors are returned, neither is the first-loaded one, and
\* the three left out are strictly less similar.
C12_Witness ==
    /\ Served
    /\ Len(index) = 5
    /\ Len(results) = 2
    /\ 1 \in LeftOut
    /\ results[1].similarity > results[2].similarity
    /\ \A p \in LeftOut : query[p] < results[2].similarity

\* C13 as claimed: the ranked list has length min(top_k, index.size()).
C13_LengthIsMinTopKSize ==
    Served => Len(results) = Min(top_k, Len(index))

\* C13 amended: for top_k >= 0 the ranked list has length
\* min(top_k, index.size()).
C13_LengthIsMinForNaturalTopK ==
    (Served /\ top_k >= 0) => Len(results) = Min(top_k, Len(index))

C13_Witness ==
    /\ Served
    /\ top_k = 2
    /\ Len(index) = 5
    /\ Len(results) = 2

\* C14: matches of equal similarity are returned in load order, and at the
\* cut-off an entry is kept before any later-loaded vector of the same
\* similarity.
C14_TiesInLoadOrder ==
    Served =>
        /\ \A i, j \in 1..Len(results) :
               (i < j /\ results[i].similarity = results[j].similarity)
                   => PosOf(results[i].id) < PosOf(results[j].id)
        /\ \A p \in LeftOut : \A i \in 1..Len(results) :
               query[p] = results[i].similarity => PosOf(results[i].id) < p

\* Three vectors tie, two of them fit under top_k = 2 and the third is cut.
C14_Witness ==
    /\ Served
    /\ top_k = 2
    /\ Len(results) = 2
    /\ results[1].similarity = results[2].similarity
    /\ PosOf(results[1].id) > 1
    /\ \E p \in LeftOut :
           /\ query[p] = results[2].similarity
           /\ p > PosOf(results[2].id)

\* A request has been ranked (or has failed in the ranker) and not yet been
\* delivered.
Ranked == service = "up" /\ embedding # <<>>
Uniform == \A i, j \in 1..Len(vectors) : Len(vectors[i]) = Len(vectors[j])
Dimensions == {Len(q) : q \in QueryVectors}

\* C15: against a zero-size index rank returns an empty sequence and raises
\* no error, whatever the query vector.
C15_EmptyIndexEmptyRanking ==
    (Ranked /\ index = <<>>) =>
        /\ response.status_code = 200
        /\ results = <<>>
        /\ \A q \in QueryVectors : ~dot_raises(q, vectors)

\* A query of three components against an index loaded from a source that
\* holds only an empty line.
C15_Witness ==
    /\ Ranked
    /\ index = <<>>
    /\ source # <<>>
    /\ Len(embedding) = 3
    /\ Served
    /\ results = <<>>

\* C16 as claimed: every index of one dimension, whatever its size, has a
\* dimension d such that rank fails exactly for the queries whose length is
\* not d.
C16_MismatchAlwaysFails ==
    (service = "up" /\ Uniform) =>
        \E d \in Dimensions :
            \A q \in QueryVectors : dot_raises(q, vectors) <=> (Len(q) # d)

\* C16 amended: against a non-empty index rank fails exactly when the
\* query's length is not the length of the stored vectors (of one of them,
\* should they differ).
C16_MismatchFailsOnNonEmptyIndex ==
    (Ranked /\ vectors # <<>>) =>
        /\ response.status_code \in {200, 500}
        /\ (response.status_code = 500) <=>
               (\E i \in 1..Len(vectors) : Len(embedding) # Len(vectors[i]))
        /\ Uniform =>
               ((response.status_code = 500) <=> (Len(embedding) # Len(vectors[1])))

\* A query of three components is refused by an index of two vectors of two
\* components.
C16_Witness ==
    /\ Ranked
    /\ Len(vectors) = 2
    /\ Uniform
    /\ Len(vectors[1]) = 2
    /\ Len(embedding) = 3
    /\ response.status_code = 500

\* C17 as claimed: when the query equals one indexed vector, that vector's id
\* is the top match, also when other indexed vectors have its direction.
C17_SelfIsTopMatch ==
    Served =>
        \A p \in 1..Len(vectors) :
            (vectors[p] = embedding /\ \A r \in 1..Len(vectors) : vectors[r] = embedding => r = p)
                => /\ results # <<>>
                   /\ results[1].id = index[p]
                   /\ results[1].similarity = One

\* C17 amended: when the query equals an indexed vector (top_k >= 1), the top
\* match has similarity 1.0, and it is that vector's id unless a vector
\* loaded earlier has the same direction.
C17_SelfIsTopMatchUnlessEarlierTwin ==
    Served =>
        \A p \in 1..Len(vectors) :
            vectors[p] = embedding =>
                /\ results # <<>>
                /\ results[1].similarity = One
                /\ (\A r \in 1..(p - 1) : cosine(vectors[r], embedding) < One)
                       => results[1].id = index[p]

\* The query equals the vector loaded last, the top match is that vector, and
\* the index holds another vector of a different direction before it.
C17_Witness ==
    /\ Served
    /\ Len(vectors) >= 2
    /\ vectors[Len(vectors)] = embedding
    /\ results[1].id = index[Len(vectors)]
    /\ results[1].similarity = One

\* A line that is neither empty nor a JSON object with id and embedding.
IsEmptyLine(line) == "text" \in DOMAIN line /\ line.text = ""
Malformed(line) ==
    /\ ~IsEmptyLine(line)
    /\ \/ "json" \notin DOMAIN line
       \/ "id" \notin DOMAIN line.json
       \/ "embedding" \notin DOMAIN line.json
HasMalformed == \E i \in 1..Len(source) : Malformed(source[i])

NoRecord == \A i \in 1..Len(source) : IsEmptyLine(source[i])
C19_EmptySourceFails ==
    (service # "starting" /\ NoRecord) => service = "failed"

\* C20 as claimed: every vector of a loaded index has the same dimension.
C20_OneDimension ==
    service = "up" => Uniform

\* Some required setting is unset or empty.
MissingSetting == \E n \in DOMAIN env : env[n] \in {Unset, ""}

\* C21: with a required setting unset or empty the constructor raises before
\* the embedding model or the index is loaded: the process does not come up,
\* nothing has been invoked, no index is installed and no request is served.
C21_MissingSettingRefusesStart ==
    MissingSetting =>
        /\ service \in {"starting", "failed"}
        /\ calls = <<>>
        /\ index = <<>>
        /\ vectors = <<>>
        /\ response = NoResponse

\* The start has failed with GCP_PROJECT set and EMBEDDINGS_PATH empty, on a
\* source that would have loaded.
C21_Witness ==
    /\ service = "failed"
    /\ env["GCP_PROJECT"] = "historicam"
    /\ env["EMBEDDINGS_PATH"] = ""
    /\ source # <<>>
    /\ load_embeddings(source).ok
    /\ calls = <<>>

\* C22 as claimed: no request is classified with confidence_threshold below
\* backup_threshold.
C22_InvertedThresholdsNeverServe ==
    Served => confidence_threshold >= backup_threshold

\* The request in flight carries a part that is not an image.
NotAnImage == upload # NoUpload /\ ~IsImage(upload)

\* C23 as claimed: a part whose content type is not an image type is
\* answered 400, and nothing is invoked for it.
C23_NonImageAnswered400 ==
    NotAnImage =>
        /\ response.status_code = 400
        /\ calls = <<>>
        /\ query = <<>>
        /\ results = <<>>

\* The request in flight has failed in the embedding provider.
ProviderFailed == IsImage(upload) /\ response.status_code = 500 /\ embedding = <<>>
CallsOf(name) == Cardinality({i \in 1..Len(calls) : calls[i] = name})

\* C24: when the embedding provider fails the provider has been called
\* once, neither the ranker nor the classifier has run and the response is a
\* 500 without a classification body; the process stays up, and the step
\* after the failure leaves it idle with the index and the settings it had
\* and nothing of the failed request, as after any other request.
C24_ProviderFailureSurfaced ==
    /\ [](ProviderFailed =>
            /\ CallsOf("get_embeddings") = 1
            /\ CallsOf("_compute_similarities") = 0
            /\ CallsOf("_classify_results") = 0
            /\ "body" \notin DOMAIN response
            /\ results = <<>>
            /\ service = "up"
            /\ ENABLED Deliver)
    /\ [][ProviderFailed =>
            /\ service' = "up"
            /\ Idle'
            /\ upload' = NoUpload
            /\ calls' = <<>>
            /\ UNCHANGED <<index, vectors, top_k, confidence_threshold,
                           backup_threshold>>]_vars

\* The provider has failed for an image sent to a service with five indexed
\* images.
C24_Witness ==
    /\ ProviderFailed
    /\ calls = EmbedCalls
    /\ Len(index) = 5
    /\ service = "up"

\* C26: once the service is up, the index and its vectors are what the load
\* made of the source, and no step changes them, top_k or the thresholds.
C26_IdentifyLeavesSharedState ==
    /\ [](service = "up" =>
            /\ index = load_embeddings(source).ids
            /\ vectors = load_embeddings(source).vecs)
    /\ [][service = "up" =>
            UNCHANGED <<index, vectors, top_k, confidence_threshold, backup_threshold>>]_vars

\* A request on an index of two vectors has been answered with a cut list of
\* one match, and the index still has both.
C26_Witness ==
    /\ Served
    /\ top_k = 1
    /\ Len(results) = 1
    /\ Len(index) = 2
    /\ index = load_embeddings(source).ids

\* The neighbors of the request as the in-memory classifier takes them: the
\* similarity 1 - d in place of the distance d.
AsSimilarities ==
    [i \in 1..Len(results) |->
        [id |-> results[i].id,
         building_id |-> results[i].building_id,
         similarity |-> One - results[i].distance]]
Decision(body) ==
    <<body.status, body.building_id, body.confidence,
      IF "matches" \in DOMAIN body THEN body.matches ELSE <<>>>>

\* C28: for every neighbor list the vector-search classifier returns the
\* status, building_id, confidence and matches that the in-memory classifier
\* returns for the similarities 1 - d under the same thresholds.
C28_ClassifiersInterchangeable ==
    Served =>
        /\ Decision(Body) =
               Decision(classify_results(AsSimilarities, confidence_threshold,
                                         backup_threshold))
        /\ ("matches" \in DOMAIN Body) <=>
               ("matches" \in DOMAIN classify_results(AsSimilarities,
                                   confidence_threshold, backup_threshold))

\* An uncertain result over three neighbors, one of them below the backup
\* threshold, where the building that wins the vote is not the nearest one.
C28_Witness ==
    /\ Served
    /\ Len(results) = 3
    /\ Body.status = "uncertain"
    /\ Len(Body.matches) = 2
    /\ \E i \in 1..3 : results[i].distance > One - backup_threshold
    /\ Body.building_id = <<"2">>
    /\ results[1].building_id = <<"1">>

\* C29 as claimed: for the ranked list of every request the evaluation
\* script's status and predicted building are the status and building_id the
\* service returns.
C29_EvaluationAgreesWithService ==
    Served =>
        LET offline == evaluate_decision(evaluate_matches(results), confidence_threshold)
        IN  /\ offline.status = Body.status
            /\ offline.predicted_building = Body.building_id

\* Request r has been answered for an image.
Answered(r) == IsImage(requests[r].content_type) /\ requests[r].response # NoResponse

\* C25: whatever the interleaving and the requests before it, the answer to
\* an image is the one its embedding gives against the loaded index and the
\* settings, and two requests with the same bytes have the same answer.
C25_ResultDependsOnOwnQueryOnly ==
    /\ \A r \in 1..Len(requests) :
           Answered(r) =>
               requests[r].response =
                   identify_building(provider(requests[r].image_bytes),
                                     load_embeddings(source).ids,
                                     load_embeddings(source).vecs,
                                     top_k, confidence_threshold, backup_threshold)
    /\ \A r1, r2 \in 1..Len(requests) :
           (Answered(r1) /\ Answered(r2)
               /\ requests[r1].image_bytes = requests[r2].image_bytes)
               => requests[r1].response = requests[r2].response

\* Three requests are in: the first and the third carry the same bytes and
\* have the same classification, the second carries other bytes, was
\* received before the third and answered differently.
C25_Witness ==
    /\ Len(requests) = 3
    /\ \A r \in 1..3 : Answered(r) /\ requests[r].response.status_code = 200
    /\ requests[1].image_bytes = requests[3].image_bytes
    /\ requests[1].response = requests[3].response
    /\ requests[2].image_bytes # requests[1].image_bytes
    /\ requests[2].response # requests[1].response

\* The threads inside the with block.
InLock == {t \in 1..Len(threads) : threads[t].pc \in {"locked", "construct"}}

\* C27: the client is stored at most once, every caller that has returned a
\* client has returned the stored one, and the lock has one holder at most;
\* a construction that fails gives its caller RuntimeError, leaves the
\* client unset and the lock free, so that construction can be tried again.
C27_ClientCreatedOnce ==
    /\ [](/\ llm_client \in {NoClient, 1}
          /\ \A t \in 1..Len(threads) :
                 threads[t].ret.kind = "client"
                     => threads[t].ret = Client(llm_client)
          /\ Cardinality(InLock) <= 1
          /\ InLock = {} <=> llm_lock = NoThread
          /\ InLock # {} => llm_lock \in InLock)
    /\ [][\A t \in 1..Len(threads) :
              (threads[t].pc = "construct" /\ threads'[t].ret = RuntimeError)
                  => /\ llm_client = NoClient
                     /\ llm_client' = NoClient
                     /\ llm_lock' = NoThread]_vars

\* One caller has got RuntimeError, a later construction has succeeded, and
\* two other callers have returned that one client.
C27_Witness ==
    /\ llm_client = 1
    /\ llm_lock = NoThread
    /\ \E t1, t2, t3 \in 1..Len(threads) :
           /\ t2 # t3
           /\ threads[t1].ret = RuntimeError
           /\ threads[t2].ret = Client(1)
           /\ threads[t3].ret = Client(1)

\* C30 as claimed: the history holds one entry for each completed upload, in
\* the order of completion, so that an entry once recorded stays and the
\* last entry is the latest upload.
C30_HistoryAppendOnly ==
    /\ Len(list_versions) = Len(completed)
    /\ \A i \in 1..Len(completed) : list_versions[i] = version_info(completed[i])
====
